---- MODULE Spec2Model ----
(***************************************************************************)
(* F1 data API (server.js): an Express application over a read-only        *)
(* SQLite database.  Each of the 20 routes validates its path parameters,  *)
(* issues one parameterised query (db.all / db.get) and answers from the   *)
(* query's completion callback with 200, 404 or 500, or with 400 before    *)
(* any query when validation fails.                                        *)
(*                                                                         *)
(* Text is modelled as a sequence of one-character strings, so that        *)
(* Number(v), SQLite's numeric affinity, LOWER and LIKE are computed       *)
(* character by character.                                                 *)
(***************************************************************************)
EXTENDS Integers, Sequences, FiniteSets, TLC

VARIABLES
  proc,     \* "opening" until the open callback, then "running" or "exited"
  db,       \* the rows of data/f1.db
  req,      \* the request being handled: its route and path parameters
  pending,  \* a statement was issued and its callback has not run yet
  dbCalls,  \* db.all / db.get calls issued for the request
  dbErr,    \* the error the data store reported for the request, or null
  res,      \* the responses sent for the request, in order
  background,  \* the exchanges whose handler has returned: each keeps its own
               \* url, req, pending, dbCalls, dbErr and res until it is closed
  url,      \* the path of the request the router is dispatching, as segments
  exitCode  \* <<>> while the process lives, <<code>> once it has exited

vars == <<proc, db, req, pending, dbCalls, dbErr, res, background, url, exitCode>>

(* ------------------------------ bounds -------------------------------- *)

\* longest path parameter, in characters
MaxLen == 3
\* longest pair of numeric path parameters (start/end, year/round), in total
MaxPairLen == 4
\* segments after /api in the request paths that are enumerated in full
MaxDepth == 3

(* ------------------------------- text --------------------------------- *)

\* characters a numeric path parameter is drawn from
IntChars == {"0", "1", "x", " "}
\* characters a search substring and a surname are drawn from; "e'" stands for
\* U+00E9 (e acute) and "E'" for U+00C9 (its capital), the others for themselves
NameChars == {"s", "S", "_", "%", "e'", "E'"}

Digits == {"0", "1"}
HexDigits == {"0", "1"}
DigitVal(c) == IF c = "1" THEN 1 ELSE 0

\* all texts over chars of length lo..hi
Texts(chars, lo, hi) == UNION {[1..n -> chars] : n \in lo..hi}

IsSpace(c) == c = " "

RECURSIVE TrimLeft(_)
TrimLeft(s) == IF s # <<>> /\ IsSpace(Head(s)) THEN TrimLeft(Tail(s)) ELSE s

RECURSIVE TrimRight(_)
TrimRight(s) ==
  IF s # <<>> /\ IsSpace(s[Len(s)]) THEN TrimRight(SubSeq(s, 1, Len(s) - 1)) ELSE s

Trim(s) == TrimRight(TrimLeft(s))

AllIn(s, chars) == \A i \in 1..Len(s) : s[i] \in chars

\* value of a digit string in the given base
RECURSIVE Radix(_, _)
Radix(s, base) ==
  IF s = <<>> THEN 0
  ELSE Radix(SubSeq(s, 1, Len(s) - 1), base) * base + DigitVal(s[Len(s)])

NaN == [nan |-> TRUE, val |-> 0]
Num(n) == [nan |-> FALSE, val |-> n]

(* --------------------------- JavaScript side --------------------------- *)

\* Number(v) of a string: surrounding white space is dropped; the empty
\* string is 0; a digit string is its decimal value; 0x followed by hex
\* digits is its hexadecimal value; anything else is NaN.
Number(v) ==
  LET t == Trim(v) IN
  IF t = <<>> THEN Num(0)
  ELSE IF AllIn(t, Digits) THEN Num(Radix(t, 10))
  ELSE IF Len(t) >= 3 /\ t[1] = "0" /\ t[2] = "x" /\ AllIn(SubSeq(t, 3, Len(t)), HexDigits)
       THEN Num(Radix(SubSeq(t, 3, Len(t)), 16))
  ELSE NaN

\* Number.isInteger: false for NaN; every number of this model is integral
NumberIsInteger(n) == ~n.nan

isInt(v) == NumberIsInteger(Number(v))

(* ----------------------------- SQLite side ----------------------------- *)

\* A bound parameter is TEXT.  Compared with an INTEGER column it gets
\* NUMERIC affinity: a well-formed decimal integer literal (white space
\* around it allowed) becomes that integer, any other text stays TEXT.
\* Hexadecimal text is not well-formed for this conversion.
IsNumericText(v) == Trim(v) # <<>> /\ AllIn(Trim(v), Digits)
NumericValue(v) == Radix(Trim(v), 10)

\* col = ?   (an INTEGER is never equal to a TEXT)
SqlEq(col, v) == IsNumericText(v) /\ col = NumericValue(v)
\* col >= ?  (every INTEGER sorts before every TEXT)
SqlGe(col, v) == IsNumericText(v) /\ col >= NumericValue(v)
\* col <= ?
SqlLe(col, v) == IsNumericText(v) => col <= NumericValue(v)
\* col BETWEEN ? AND ?
SqlBetween(col, lo, hi) == SqlGe(col, lo) /\ SqlLe(col, hi)

\* LOWER(X) folds the 26 ASCII capitals only
LowerChar(c) == IF c = "S" THEN "s" ELSE c
LOWER(s) == [i \in 1..Len(s) |-> LowerChar(s[i])]

\* X LIKE P: % matches any run of characters, _ any one character, any
\* other character itself, ASCII letters without regard to case
RECURSIVE Like(_, _)
Like(pat, txt) ==
  IF pat = <<>> THEN txt = <<>>
  ELSE IF Head(pat) = "%"
       THEN \E k \in 0..Len(txt) : Like(Tail(pat), SubSeq(txt, k + 1, Len(txt)))
  ELSE IF txt = <<>> THEN FALSE
  ELSE IF Head(pat) = "_" THEN Like(Tail(pat), Tail(txt))
  ELSE LowerChar(Head(pat)) = LowerChar(Head(txt)) /\ Like(Tail(pat), Tail(txt))

\* BINARY collation: texts compare by their UTF-8 bytes, that is by code point
CodePoint(c) ==
  CASE c = " " -> 32 [] c = "%" -> 37 [] c = "0" -> 48 [] c = "1" -> 49
    [] c = "S" -> 83 [] c = "_" -> 95 [] c = "s" -> 115 [] c = "x" -> 120
    [] c = "E'" -> 201 [] c = "e'" -> 233 [] OTHER -> 0
Codes(s) == [i \in 1..Len(s) |-> CodePoint(s[i])]

\* lexicographic order on sequences of integers
RECURSIVE SeqLess(_, _)
SeqLess(a, b) ==
  IF b = <<>> THEN FALSE
  ELSE IF a = <<>> THEN TRUE
  ELSE IF Head(a) # Head(b) THEN Head(a) < Head(b)
  ELSE SeqLess(Tail(a), Tail(b))

\* a sort key is a sequence of columns, each a sequence of integers
RECURSIVE KeyLess(_, _)
KeyLess(k1, k2) ==
  IF k1 = <<>> \/ k2 = <<>> THEN FALSE
  ELSE IF Head(k1) # Head(k2) THEN SeqLess(Head(k1), Head(k2))
  ELSE KeyLess(Tail(k1), Tail(k2))

\* ORDER BY ... ASC over <<key, row>> pairs; rows with equal keys keep scan order
RECURSIVE InsertByKey(_, _)
InsertByKey(sorted, p) ==
  IF sorted = <<>> THEN <<p>>
  ELSE IF KeyLess(p[1], Head(sorted)[1]) THEN <<p>> \o sorted
  ELSE <<Head(sorted)>> \o InsertByKey(Tail(sorted), p)

RECURSIVE SortPairs(_)
SortPairs(pairs) ==
  IF pairs = <<>> THEN <<>>
  ELSE InsertByKey(SortPairs(SubSeq(pairs, 1, Len(pairs) - 1)), pairs[Len(pairs)])

OrderByNothing(pairs) == [i \in 1..Len(pairs) |-> pairs[i][2]]
OrderBy(pairs) == LET s == SortPairs(pairs) IN [i \in 1..Len(s) |-> s[i][2]]

(* ------------------------------ data set ------------------------------- *)

\* data/f1.db as opened at line 10: one sequence of rows per table, in scan
\* order.  Only the columns the queries name are kept.  Every reference
\* resolves and (year, round) is unique among the races.
Monza == <<"m", "z">>
Spa == <<"s", "p">>
Ferrari == <<"f", "e">>
McLaren == <<"m", "c">>

F1Db ==
  [circuits |-> <<
     [circuitId |-> 1, circuitRef |-> Monza, name |-> "Monza", location |-> "Monza", country |-> "Italy"],
     [circuitId |-> 2, circuitRef |-> Spa, name |-> "Spa", location |-> "Spa", country |-> "Belgium"] >>,
   constructors |-> <<
     [constructorId |-> 1, constructorRef |-> Ferrari, name |-> "Ferrari", nationality |-> "Italian"],
     [constructorId |-> 2, constructorRef |-> McLaren, name |-> "McLaren", nationality |-> "British"] >>,
   drivers |-> <<
     [driverId |-> 1, driverRef |-> <<"s", "s">>, code |-> "SES", forename |-> <<"s">>, surname |-> <<"S", "e'">>],
     [driverId |-> 2, driverRef |-> <<"e", "s">>, code |-> "ESS", forename |-> <<"S">>, surname |-> <<"e'", "s">>],
     [driverId |-> 3, driverRef |-> <<"S", "s">>, code |-> "SEU", forename |-> <<"S">>, surname |-> <<"S", "e'">>] >>,
   races |-> <<
     [raceId |-> 1, year |-> 11, round |-> 10, circuitId |-> 1, name |-> "Italian GP", date |-> "0011-09-01", time |-> "13:00", url |-> "u1"],
     [raceId |-> 10, year |-> 10, round |-> 1, circuitId |-> 2, name |-> "Belgian GP", date |-> "0010-08-01", time |-> "13:00", url |-> "u10"],
     [raceId |-> 11, year |-> 11, round |-> 1, circuitId |-> 1, name |-> "Monza GP", date |-> "0011-03-01", time |-> "13:00", url |-> "u11"],
     [raceId |-> 100, year |-> 1, round |-> 1, circuitId |-> 1, name |-> "First GP", date |-> "0001-05-01", time |-> "13:00", url |-> "u100"] >>,
   results |-> <<
     [resultId |-> 1, raceId |-> 11, driverId |-> 1, constructorId |-> 1, position |-> 2, positionText |-> "2", points |-> 18, grid |-> 3, laps |-> 50, statusId |-> 1],
     [resultId |-> 2, raceId |-> 11, driverId |-> 2, constructorId |-> 2, position |-> 1, positionText |-> "1", points |-> 25, grid |-> 1, laps |-> 50, statusId |-> 1],
     [resultId |-> 3, raceId |-> 11, driverId |-> 3, constructorId |-> 1, position |-> 3, positionText |-> "3", points |-> 15, grid |-> 0, laps |-> 50, statusId |-> 1],
     [resultId |-> 4, raceId |-> 1, driverId |-> 1, constructorId |-> 1, position |-> 1, positionText |-> "1", points |-> 25, grid |-> 1, laps |-> 53, statusId |-> 1],
     [resultId |-> 5, raceId |-> 10, driverId |-> 1, constructorId |-> 2, position |-> 1, positionText |-> "1", points |-> 25, grid |-> 2, laps |-> 44, statusId |-> 1],
     [resultId |-> 6, raceId |-> 100, driverId |-> 1, constructorId |-> 2, position |-> 1, positionText |-> "1", points |-> 25, grid |-> 1, laps |-> 40, statusId |-> 1] >>,
   qualifying |-> <<
     [qualifyId |-> 1, raceId |-> 11, driverId |-> 1, constructorId |-> 1, position |-> 3, q1 |-> "1:21", q2 |-> "1:20", q3 |-> "1:19"],
     [qualifyId |-> 2, raceId |-> 11, driverId |-> 2, constructorId |-> 2, position |-> 1, q1 |-> "1:20", q2 |-> "1:19", q3 |-> "1:18"],
     [qualifyId |-> 3, raceId |-> 11, driverId |-> 3, constructorId |-> 1, position |-> 2, q1 |-> "1:22", q2 |-> "1:21", q3 |-> "1:20"] >>,
   driverStandings |-> <<
     [raceId |-> 11, driverId |-> 1, position |-> 2, points |-> 18, wins |-> 0],
     [raceId |-> 11, driverId |-> 3, position |-> 3, points |-> 15, wins |-> 0],
     [raceId |-> 11, driverId |-> 2, position |-> 1, points |-> 25, wins |-> 1] >>,
   constructorStandings |-> <<
     [raceId |-> 11, constructorId |-> 1, position |-> 2, points |-> 33, wins |-> 0],
     [raceId |-> 11, constructorId |-> 2, position |-> 1, points |-> 25, wins |-> 1] >>]

\* the same schema with no rows loaded
EmptyDb ==
  [circuits |-> <<>>, constructors |-> <<>>, drivers |-> <<>>, races |-> <<>>,
   results |-> <<>>, qualifying |-> <<>>, driverStandings |-> <<>>,
   constructorStandings |-> <<>>]

Databases == {F1Db, EmptyDb}

(* --------------------------- relational steps -------------------------- *)

\* WHERE: the rows of a table that pass a test, in scan order
RECURSIVE Where(_, _)
Where(rows, keep) ==
  IF rows = <<>> THEN <<>>
  ELSE (IF keep[Head(rows)] THEN <<Head(rows)>> ELSE <<>>) \o Where(Tail(rows), keep)

RowSet(rows) == {rows[i] : i \in 1..Len(rows)}

\* JOIN t ON t.key = v, for a key that identifies at most one row of t
Has(table, key, v) == \E i \in 1..Len(table) : table[i][key] = v
TheRow(table, key, v) == table[CHOOSE i \in 1..Len(table) : table[i][key] = v]

(* ------------------------------ responses ------------------------------ *)

\* a JSON value: an object (a record of fields) or an array (a sequence)
JsonObject(fields) == [kind |-> "object", value |-> fields]
JsonArray(items) == [kind |-> "array", value |-> items]

\* res.status(code).json(body); res.json(body) alone sends status 200
Send(code, body) == [status |-> code, body |-> body]
Json(body) == Send(200, body)

\* the default message of notFound, "No data found.", character by character
NoDataFound ==
  <<"N", "o", " ", "d", "a", "t", "a", " ", "f", "o", "u", "n", "d", ".">>

notFoundAs200(msg) == Send(200, JsonObject([error |-> msg]))
notFound(msg) == Send(404, JsonObject([error |-> msg]))

badReq(msg) == Send(400, JsonObject([error |-> msg]))

\* the arguments of a completion callback: err is null or an Error, the
\* second argument undefined or a value
Null == [defined |-> FALSE]
Undefined == [defined |-> FALSE]
Error(m) == [defined |-> TRUE, message |-> m]
Value(x) == [defined |-> TRUE, value |-> x]

\* db.get hands over the first row of the result, or undefined
FirstRow(rows) == IF rows = <<>> THEN Undefined ELSE Value(rows[1])

\* the callback of a db.all route:
\*   if (err) return res.status(500).json({ error: err.message });
\*   if (!rows?.length) return notFound(res, msg);
\*   res.json(rows);
AllCallbackNoErr(err, rows, msg) ==
  IF ~rows.defined \/ Len(rows.value) = 0 THEN notFound(msg)
  ELSE Json(JsonArray(rows.value))
AllCallbackNoEmpty(err, rows, msg) ==
  IF err.defined THEN Send(500, JsonObject([error |-> err.message]))
  ELSE IF ~rows.defined THEN notFound(msg)
  ELSE Json(JsonArray(rows.value))
AllCallback(err, rows, msg) ==
  IF err.defined THEN Send(500, JsonObject([error |-> err.message]))
  ELSE IF ~rows.defined \/ Len(rows.value) = 0 THEN notFound(msg)
  ELSE Json(JsonArray(rows.value))

\* the callback of a db.get route:
\*   if (err) return res.status(500).json({ error: err.message });
\*   if (!row) return notFound(res, msg);
\*   res.json(row);
GetCallback(err, row, msg) ==
  IF err.defined THEN Send(500, JsonObject([error |-> err.message]))
  ELSE IF ~row.defined THEN notFound(msg)
  ELSE Json(JsonObject(row.value))

(* --------------------- the queries of the 20 routes -------------------- *)

\* 1) SELECT * FROM circuits
CircuitsSql(d, p) == d.circuits

\* 2) SELECT * FROM circuits WHERE circuitRef = ?
CircuitByRefSql(d, p) ==
  Where(d.circuits, [c \in RowSet(d.circuits) |-> c.circuitRef = p.circuitRef])

\* 3) SELECT c.* FROM circuits c JOIN races r ON c.circuitId = r.circuitId
\*    WHERE r.year = ? ORDER BY r.round ASC
\*    (SELECT DISTINCT c.* would keep the first of equal rows)
CircuitsSeasonSqlDistinct(d, p) ==
  LET hit == Where(d.races, [r \in RowSet(d.races) |->
                 Has(d.circuits, "circuitId", r.circuitId) /\ SqlEq(r.year, p.year)])
      rows == OrderBy([i \in 1..Len(hit) |->
                << << <<hit[i].round>> >>, TheRow(d.circuits, "circuitId", hit[i].circuitId) >>])
      first == {i \in 1..Len(rows) : \A j \in 1..(i - 1) : rows[j] # rows[i]}
  IN [k \in 1..Cardinality(first) |->
        rows[CHOOSE i \in first : Cardinality({j \in first : j <= i}) = k]]
CircuitsSeasonSql(d, p) ==
  LET hit == Where(d.races, [r \in RowSet(d.races) |->
                 Has(d.circuits, "circuitId", r.circuitId) /\ SqlEq(r.year, p.year)])
  IN OrderBy([i \in 1..Len(hit) |->
       << << <<hit[i].round>> >>, TheRow(d.circuits, "circuitId", hit[i].circuitId) >>])

\* 4) SELECT * FROM constructors
ConstructorsSql(d, p) == d.constructors

\* 5) SELECT * FROM constructors WHERE constructorRef = ?
ConstructorByRefSql(d, p) ==
  Where(d.constructors, [c \in RowSet(d.constructors) |-> c.constructorRef = p.ref])

\* 6) SELECT * FROM drivers
DriversSql(d, p) == d.drivers

\* 7) SELECT * FROM drivers WHERE driverRef = ?
DriverByRefSql(d, p) ==
  Where(d.drivers, [x \in RowSet(d.drivers) |-> x.driverRef = p.ref])

\* 8) SELECT * FROM drivers WHERE LOWER(surname) LIKE LOWER(?) || '%'
\*    ORDER BY surname ASC, forename ASC
DriversSearchSql(d, p) ==
  LET hit == Where(d.drivers, [x \in RowSet(d.drivers) |->
                 Like(LOWER(p.substring) \o <<"%">>, LOWER(x.surname))])
  IN OrderBy([i \in 1..Len(hit) |->
       << <<Codes(hit[i].surname), Codes(hit[i].forename)>>, hit[i] >>])

\* 9) SELECT d.* FROM results r JOIN drivers d ON d.driverId = r.driverId
\*    WHERE r.raceId = ? ORDER BY r.grid ASC
DriversRaceSql(d, p) ==
  LET hit == Where(d.results, [r \in RowSet(d.results) |->
                 Has(d.drivers, "driverId", r.driverId) /\ SqlEq(r.raceId, p.raceId)])
  IN OrderBy([i \in 1..Len(hit) |->
       << << <<hit[i].grid>> >>, TheRow(d.drivers, "driverId", hit[i].driverId) >>])

\* the row of route 10: r.raceId, r.year, r.round, r.name, r.date, r.time, r.url,
\*   c.name AS circuitName, c.location, c.country
RaceRowWithKey(d, r) ==
  LET c == TheRow(d.circuits, "circuitId", r.circuitId) IN
  [raceId |-> r.raceId, year |-> r.year, round |-> r.round, name |-> r.name,
   date |-> r.date, time |-> r.time, url |-> r.url, circuitId |-> r.circuitId,
   circuitName |-> c.name, location |-> c.location, country |-> c.country]
RaceRow(d, r) ==
  LET c == TheRow(d.circuits, "circuitId", r.circuitId) IN
  [raceId |-> r.raceId, year |-> r.year, round |-> r.round, name |-> r.name,
   date |-> r.date, time |-> r.time, url |-> r.url,
   circuitName |-> c.name, location |-> c.location, country |-> c.country]

\* 10) SELECT ... FROM races r JOIN circuits c ON c.circuitId = r.circuitId
\*     WHERE r.raceId = ?
RaceByIdSql(d, p) ==
  LET hit == Where(d.races, [r \in RowSet(d.races) |->
                 Has(d.circuits, "circuitId", r.circuitId) /\ SqlEq(r.raceId, p.raceId)])
  IN [i \in 1..Len(hit) |-> RaceRow(d, hit[i])]

\* 11) SELECT * FROM races WHERE year = ? ORDER BY round ASC
RacesSeasonSql(d, p) ==
  LET hit == Where(d.races, [r \in RowSet(d.races) |-> SqlEq(r.year, p.year)])
  IN OrderBy([i \in 1..Len(hit) |-> << << <<hit[i].round>> >>, hit[i] >>])

\* 12) SELECT * FROM races WHERE year = ? AND round = ?
RaceSeasonRoundSqlAnyRound(d, p) ==
  Where(d.races, [r \in RowSet(d.races) |-> SqlEq(r.year, p.year)])
RaceSeasonRoundSql(d, p) ==
  Where(d.races, [r \in RowSet(d.races) |->
          SqlEq(r.year, p.year) /\ SqlEq(r.round, p.round)])

\* JOIN circuits c ON c.circuitId = r.circuitId WHERE c.circuitRef = ?
AtCircuit(d, r, ref) ==
  /\ Has(d.circuits, "circuitId", r.circuitId)
  /\ TheRow(d.circuits, "circuitId", r.circuitId).circuitRef = ref

\* 13) SELECT r.* FROM races r JOIN circuits c ON c.circuitId = r.circuitId
\*     WHERE c.circuitRef = ? ORDER BY r.year ASC, r.round ASC
RacesCircuitSql(d, p) ==
  LET hit == Where(d.races, [r \in RowSet(d.races) |-> AtCircuit(d, r, p.ref)])
  IN OrderBy([i \in 1..Len(hit) |-> << <<<<hit[i].year>>, <<hit[i].round>>>>, hit[i] >>])

\* 14) ... WHERE c.circuitRef = ? AND r.year BETWEEN ? AND ?
\*     ORDER BY r.year ASC, r.round ASC
RacesCircuitSeasonSql(d, p) ==
  LET hit == Where(d.races, [r \in RowSet(d.races) |->
                 AtCircuit(d, r, p.ref) /\ SqlBetween(r.year, p.start, p.end)])
  IN OrderBy([i \in 1..Len(hit) |-> << <<<<hit[i].year>>, <<hit[i].round>>>>, hit[i] >>])

\* the three joins of routes 15 to 18 find their rows
Joined(d, r) ==
  /\ Has(d.races, "raceId", r.raceId)
  /\ Has(d.drivers, "driverId", r.driverId)
  /\ Has(d.constructors, "constructorId", r.constructorId)

\* the inlined race, driver and constructor columns of routes 15 and 18:
\*   ra.name AS race_name, ra.round AS race_round, ra.year AS race_year,
\*   ra.date AS race_date, d.driverRef AS driver_ref, d.code AS driver_code,
\*   d.forename AS driver_forename, d.surname AS driver_surname,
\*   c.name AS constructor_name, c.constructorRef AS constructor_ref,
\*   c.nationality AS constructor_nationality
Inlined(d, r) ==
  LET ra == TheRow(d.races, "raceId", r.raceId)
      dr == TheRow(d.drivers, "driverId", r.driverId)
      c == TheRow(d.constructors, "constructorId", r.constructorId)
  IN [race_name |-> ra.name, race_round |-> ra.round, race_year |-> ra.year,
      race_date |-> ra.date,
      driver_ref |-> dr.driverRef, driver_code |-> dr.code,
      driver_forename |-> dr.forename, driver_surname |-> dr.surname,
      constructor_name |-> c.name, constructor_ref |-> c.constructorRef,
      constructor_nationality |-> c.nationality]

\* a row made of the columns of two records with different names
Columns(a, b) ==
  [k \in DOMAIN a \cup DOMAIN b |-> IF k \in DOMAIN a THEN a[k] ELSE b[k]]

\* 15) SELECT r.resultId, r.position, r.positionText, r.points, r.grid, r.laps,
\*       r.statusId, (race, driver, constructor columns)
\*     FROM results r JOIN races ra .. JOIN drivers d .. JOIN constructors c ..
\*     WHERE r.raceId = ? ORDER BY r.grid ASC
ResultsSql(d, p) ==
  LET hit == Where(d.results, [r \in RowSet(d.results) |->
                 Joined(d, r) /\ SqlEq(r.raceId, p.raceId)])
  IN OrderBy([i \in 1..Len(hit) |->
       << << <<hit[i].grid>> >>,
          Columns([resultId |-> hit[i].resultId, position |-> hit[i].position,
                   positionText |-> hit[i].positionText, points |-> hit[i].points,
                   grid |-> hit[i].grid, laps |-> hit[i].laps,
                   statusId |-> hit[i].statusId],
                  Inlined(d, hit[i])) >>])

\* the row of routes 16 and 17:
\*   r.resultId, r.position, r.points, r.grid, r.laps, r.statusId,
\*   ra.raceId, ra.year, ra.round, ra.name, ra.date,
\*   c.name AS constructor_name, c.constructorRef AS constructor_ref
DriverResultRow(d, r) ==
  LET ra == TheRow(d.races, "raceId", r.raceId)
      c == TheRow(d.constructors, "constructorId", r.constructorId)
  IN [resultId |-> r.resultId, position |-> r.position, points |-> r.points,
      grid |-> r.grid, laps |-> r.laps, statusId |-> r.statusId,
      raceId |-> ra.raceId, year |-> ra.year, round |-> ra.round,
      name |-> ra.name, date |-> ra.date,
      constructor_name |-> c.name, constructor_ref |-> c.constructorRef]

\* 16) ... FROM results r JOIN drivers d .. JOIN races ra .. JOIN constructors c ..
\*     WHERE d.driverRef = ? ORDER BY ra.year ASC, ra.round ASC
ResultsDriverSql(d, p) ==
  LET hit == Where(d.results, [r \in RowSet(d.results) |->
                 Joined(d, r) /\ TheRow(d.drivers, "driverId", r.driverId).driverRef = p.ref])
      row == [i \in 1..Len(hit) |-> DriverResultRow(d, hit[i])]
  IN OrderBy([i \in 1..Len(hit) |-> << <<<<row[i].year>>, <<row[i].round>>>>, row[i] >>])

\* 17) ... WHERE d.driverRef = ? AND ra.year BETWEEN ? AND ?
\*     ORDER BY ra.year ASC, ra.round ASC
ResultsDriverSeasonsSql(d, p) ==
  LET hit == Where(d.results, [r \in RowSet(d.results) |->
                 /\ Joined(d, r)
                 /\ TheRow(d.drivers, "driverId", r.driverId).driverRef = p.ref
                 /\ SqlBetween(TheRow(d.races, "raceId", r.raceId).year, p.start, p.end)])
      row == [i \in 1..Len(hit) |-> DriverResultRow(d, hit[i])]
  IN OrderBy([i \in 1..Len(hit) |-> << <<<<row[i].year>>, <<row[i].round>>>>, row[i] >>])

\* 18) SELECT q.qualifyId, q.position, q.q1, q.q2, q.q3, (race, driver,
\*       constructor columns)
\*     FROM qualifying q JOIN races ra .. JOIN drivers d .. JOIN constructors c ..
\*     WHERE q.raceId = ? ORDER BY q.position ASC
QualifyingSql(d, p) ==
  LET hit == Where(d.qualifying, [q \in RowSet(d.qualifying) |->
                 Joined(d, q) /\ SqlEq(q.raceId, p.raceId)])
  IN OrderBy([i \in 1..Len(hit) |->
       << << <<hit[i].position>> >>,
          Columns([qualifyId |-> hit[i].qualifyId, position |-> hit[i].position,
                   q1 |-> hit[i].q1, q2 |-> hit[i].q2, q3 |-> hit[i].q3],
                  Inlined(d, hit[i])) >>])

\* 19) SELECT ds.position, ds.points, ds.wins, d.driverRef AS driver_ref,
\*       d.code AS driver_code, d.forename AS driver_forename, d.surname AS driver_surname
\*     FROM driverStandings ds JOIN drivers d ON d.driverId = ds.driverId
\*     WHERE ds.raceId = ? ORDER BY ds.position ASC
DriverStandingsSql(d, p) ==
  LET hit == Where(d.driverStandings, [ds \in RowSet(d.driverStandings) |->
                 Has(d.drivers, "driverId", ds.driverId) /\ SqlEq(ds.raceId, p.raceId)])
      dr(i) == TheRow(d.drivers, "driverId", hit[i].driverId)
  IN OrderBy([i \in 1..Len(hit) |->
       << << <<hit[i].position>> >>,
          [position |-> hit[i].position, points |-> hit[i].points, wins |-> hit[i].wins,
           driver_ref |-> dr(i).driverRef, driver_code |-> dr(i).code,
           driver_forename |-> dr(i).forename, driver_surname |-> dr(i).surname] >>])

\* 20) SELECT cs.position, cs.points, cs.wins, c.name AS constructor_name,
\*       c.constructorRef AS constructor_ref, c.nationality AS constructor_nationality
\*     FROM constructorStandings cs JOIN constructors c ON c.constructorId = cs.constructorId
\*     WHERE cs.raceId = ? ORDER BY cs.position ASC
ConstructorStandingsSql(d, p) ==
  LET hit == Where(d.constructorStandings, [cs \in RowSet(d.constructorStandings) |->
                 Has(d.constructors, "constructorId", cs.constructorId)
                 /\ SqlEq(cs.raceId, p.raceId)])
      c(i) == TheRow(d.constructors, "constructorId", hit[i].constructorId)
  IN OrderBy([i \in 1..Len(hit) |->
       << << <<hit[i].position>> >>,
          [position |-> hit[i].position, points |-> hit[i].points, wins |-> hit[i].wins,
           constructor_name |-> c(i).name, constructor_ref |-> c(i).constructorRef,
           constructor_nationality |-> c(i).nationality] >>])

(* ------------------ the completion callbacks of the routes ------------- *)

\* Text built by a template literal is the sequence of its literal pieces and
\* of the characters of the interpolated parameters.

\* 1) callback of route 1
CircuitsDone(p, err, rows) ==
  AllCallback(err, rows,
    NoDataFound)

\* 2) callback of route 2
CircuitByRefDone(p, err, row) ==
  GetCallback(err, row,
    NoDataFound)

\* 3) callback of route 3
CircuitsSeasonDone(p, err, rows) ==
  AllCallback(err, rows,
    <<"No circuits found for season ">> \o p.year \o <<".">>)

\* 4) callback of route 4
ConstructorsDone(p, err, rows) ==
  AllCallback(err, rows,
    NoDataFound)

\* 5) callback of route 5
ConstructorByRefDone(p, err, row) ==
  GetCallback(err, row,
    <<"No constructor found with ref '">> \o p.ref \o <<"'.">>)

\* 6) callback of route 6
DriversDone(p, err, rows) ==
  AllCallback(err, rows,
    NoDataFound)

\* 7) callback of route 7
DriverByRefDone(p, err, row) ==
  GetCallback(err, row,
    <<"No driver found with ref '">> \o p.ref \o <<"'.">>)

\* 8) callback of route 8
DriversSearchDone(p, err, rows) ==
  AllCallback(err, rows,
    <<"No drivers with surname starting '">> \o p.substring \o <<"'.">>)

\* 9) callback of route 9
DriversRaceDone(p, err, rows) ==
  AllCallback(err, rows,
    <<"No drivers found for raceId ">> \o p.raceId \o <<".">>)

\* 10) callback of route 10
RaceByIdDone(p, err, row) ==
  GetCallback(err, row,
    <<"No race found with id ">> \o p.raceId \o <<".">>)

\* 11) callback of route 11
RacesSeasonDone(p, err, rows) ==
  AllCallback(err, rows,
    <<"No races for season ">> \o p.year \o <<".">>)

\* 12) callback of route 12
RaceSeasonRoundDone(p, err, row) ==
  GetCallback(err, row,
    <<"No race for season ">> \o p.year \o <<", round ">> \o p.round \o <<".">>)

\* 13) callback of route 13
RacesCircuitDone(p, err, rows) ==
  AllCallback(err, rows,
    <<"No races for circuit '">> \o p.ref \o <<"'.">>)

\* 14) callback of route 14
RacesCircuitSeasonDone(p, err, rows) ==
  AllCallback(err, rows,
    <<"No races for '">> \o p.ref \o <<"' between ">> \o p.start \o <<" and ">> \o p.end \o <<".">>)

\* 15) callback of route 15
ResultsDone(p, err, rows) ==
  AllCallback(err, rows,
    <<"No results for raceId ">> \o p.raceId \o <<".">>)

\* 16) callback of route 16
ResultsDriverDone(p, err, rows) ==
  AllCallback(err, rows,
    <<"No results for driver '">> \o p.ref \o <<"'.">>)

\* 17) callback of route 17
ResultsDriverSeasonsDone(p, err, rows) ==
  AllCallback(err, rows,
    <<"No results for '">> \o p.ref \o <<"' between ">> \o p.start \o <<" and ">> \o p.end \o <<".">>)

\* 18) callback of route 18
QualifyingDone(p, err, rows) ==
  AllCallback(err, rows,
    <<"No qualifying for raceId ">> \o p.raceId \o <<".">>)

\* 19) callback of route 19
DriverStandingsDone(p, err, rows) ==
  AllCallback(err, rows,
    <<"No driver standings for raceId ">> \o p.raceId \o <<".">>)

\* 20) callback of route 20
ConstructorStandingsDone(p, err, rows) ==
  AllCallback(err, rows,
    <<"No constructor standings for raceId ">> \o p.raceId \o <<".">>)


\* what db.all / db.get hand to the callback when the statement succeeds
RunSql(op, d, p) ==
  CASE op = "circuits" -> Value(CircuitsSql(d, p))
    [] op = "circuitByRef" -> FirstRow(CircuitByRefSql(d, p))
    [] op = "circuitsSeason" -> Value(CircuitsSeasonSql(d, p))
    [] op = "constructors" -> Value(ConstructorsSql(d, p))
    [] op = "constructorByRef" -> FirstRow(ConstructorByRefSql(d, p))
    [] op = "drivers" -> Value(DriversSql(d, p))
    [] op = "driverByRef" -> FirstRow(DriverByRefSql(d, p))
    [] op = "driversSearch" -> Value(DriversSearchSql(d, p))
    [] op = "driversRace" -> Value(DriversRaceSql(d, p))
    [] op = "raceById" -> FirstRow(RaceByIdSql(d, p))
    [] op = "racesSeason" -> Value(RacesSeasonSql(d, p))
    [] op = "raceSeasonRound" -> FirstRow(RaceSeasonRoundSql(d, p))
    [] op = "racesCircuit" -> Value(RacesCircuitSql(d, p))
    [] op = "racesCircuitSeason" -> Value(RacesCircuitSeasonSql(d, p))
    [] op = "results" -> Value(ResultsSql(d, p))
    [] op = "resultsDriver" -> Value(ResultsDriverSql(d, p))
    [] op = "resultsDriverSeasons" -> Value(ResultsDriverSeasonsSql(d, p))
    [] op = "qualifying" -> Value(QualifyingSql(d, p))
    [] op = "driverStandings" -> Value(DriverStandingsSql(d, p))
    [] op = "constructorStandings" -> Value(ConstructorStandingsSql(d, p))


\* the callback registered by the route that issued the query
Callback(op, p, err, rows) ==
  CASE op = "circuits" -> CircuitsDone(p, err, rows)
    [] op = "circuitByRef" -> CircuitByRefDone(p, err, rows)
    [] op = "circuitsSeason" -> CircuitsSeasonDone(p, err, rows)
    [] op = "constructors" -> ConstructorsDone(p, err, rows)
    [] op = "constructorByRef" -> ConstructorByRefDone(p, err, rows)
    [] op = "drivers" -> DriversDone(p, err, rows)
    [] op = "driverByRef" -> DriverByRefDone(p, err, rows)
    [] op = "driversSearch" -> DriversSearchDone(p, err, rows)
    [] op = "driversRace" -> DriversRaceDone(p, err, rows)
    [] op = "raceById" -> RaceByIdDone(p, err, rows)
    [] op = "racesSeason" -> RacesSeasonDone(p, err, rows)
    [] op = "raceSeasonRound" -> RaceSeasonRoundDone(p, err, rows)
    [] op = "racesCircuit" -> RacesCircuitDone(p, err, rows)
    [] op = "racesCircuitSeason" -> RacesCircuitSeasonDone(p, err, rows)
    [] op = "results" -> ResultsDone(p, err, rows)
    [] op = "resultsDriver" -> ResultsDriverDone(p, err, rows)
    [] op = "resultsDriverSeasons" -> ResultsDriverSeasonsDone(p, err, rows)
    [] op = "qualifying" -> QualifyingDone(p, err, rows)
    [] op = "driverStandings" -> DriverStandingsDone(p, err, rows)
    [] op = "constructorStandings" -> ConstructorStandingsDone(p, err, rows)

(* ------------------------------- requests ------------------------------ *)

\* The words of the route paths.  A path is the sequence of the segments
\* between its slashes, each given by its decoded characters; a trailing
\* slash shows as a last, empty segment.
ApiSeg == <<"a", "p", "i">>
CircuitsSeg == <<"c", "i", "r", "c", "u", "i", "t", "s">>
ConstructorsSeg == <<"c", "o", "n", "s", "t", "r", "u", "c", "t", "o", "r", "s">>
DriversSeg == <<"d", "r", "i", "v", "e", "r", "s">>
RacesSeg == <<"r", "a", "c", "e", "s">>
ResultsSeg == <<"r", "e", "s", "u", "l", "t", "s">>
QualifyingSeg == <<"q", "u", "a", "l", "i", "f", "y", "i", "n", "g">>
StandingsSeg == <<"s", "t", "a", "n", "d", "i", "n", "g", "s">>
SeasonSeg == <<"s", "e", "a", "s", "o", "n">>
SeasonsSeg == <<"s", "e", "a", "s", "o", "n", "s">>
SearchSeg == <<"s", "e", "a", "r", "c", "h">>
RaceSeg == <<"r", "a", "c", "e">>
DriverSeg == <<"d", "r", "i", "v", "e", "r">>

\* the segments request paths are made of: the resource words, the words
\* that follow a resource in a route path (one of them capitalised too), and
\* parameter values
Resources ==
  {CircuitsSeg, ConstructorsSeg, DriversSeg, RacesSeg, ResultsSeg, QualifyingSeg,
   StandingsSeg}
PathWords ==
  {CircuitsSeg, ConstructorsSeg, DriversSeg, SeasonSeg, SeasonsSeg, SearchSeg,
   <<"S", "e", "a", "r", "c", "h">>, RaceSeg, DriverSeg}
PathValues == {<<"1">>, <<"1", "1">>, <<"x">>, Monza, <<"s", "s">>}
Segments == PathWords \cup PathValues

\* request paths: /api, a resource word or another word, and up to
\* MaxDepth - 1 more segments, empty ones (a doubled or trailing slash)
\* included; and longer paths for routes 12, 14 and 17
Paths ==
  {<<ApiSeg, w>> \o s : w \in Resources \cup {SeasonSeg},
       s \in UNION {[1..n -> Segments \cup {<<>>}] : n \in 0..(MaxDepth - 1)}}
  \cup {<<ApiSeg, RacesSeg, SeasonSeg, y, r>> \o t :
          y \in {<<"1">>, <<"1", "1">>, <<"x">>}, r \in {<<"1">>, <<"x">>},
          t \in {<<>>, << <<>> >>}}
  \cup {<<ApiSeg, RacesSeg, CircuitsSeg, Monza, w, a, b>> :
          w \in {SeasonSeg, SeasonsSeg},
          a \in {<<"1">>, <<"1", "1">>}, b \in {<<"1">>, <<"1", "1">>, <<"x">>}}
  \cup {<<ApiSeg, ResultsSeg, DriversSeg, <<"s", "s">>, w, a, b>> :
          w \in {SeasonSeg, SeasonsSeg},
          a \in {<<"1">>, <<"1", "1">>}, b \in {<<"1">>, <<"1", "1">>, <<"x">>}}

\* the values a path parameter takes
IntParams == Texts(IntChars, 1, MaxLen) \cup Segments
IntPairs ==
  UNION {[1..n -> IntChars] \X [1..m -> IntChars] :
           <<n, m>> \in {x \in (1..MaxLen) \X (1..MaxLen) : x[1] + x[2] <= MaxPairLen}}
Substrings == Texts(NameChars, 1, MaxLen) \cup Segments
RefParams ==
  {Monza, Spa, Ferrari, McLaren, <<"s", "s">>, <<"e", "s">>, <<"S", "s">>, <<"q">>, <<"a">>}
  \cup Segments
CircuitRangeRefs == {Monza, Spa, <<"q">>}
DriverRangeRefs == {<<"s", "s">>, <<"e", "s">>, <<"q">>}

\* messages the data store reports when a statement fails
DbErrors == {"SQLITE_IOERR: disk I/O error", "SQLITE_ERROR: no such table"}

NoReq == [op |-> "none", p |-> <<>>]

\* a request is taken while the process lives and no other is being handled
Accepting == proc \in {"opening", "running"} /\ req = NoReq

\* the handler answers at once, before any query (a request is taken when
\* Accepting holds)
ReplyWithoutReturn(op, p, r) ==
  /\ req' = [op |-> op, p |-> p]
  /\ res' = <<r>>
  /\ pending' = TRUE
  /\ dbCalls' = 1
  /\ UNCHANGED <<proc, db, dbErr, background, url, exitCode>>
Reply(op, p, r) ==
  /\ req' = [op |-> op, p |-> p]
  /\ res' = <<r>>
  /\ pending' = FALSE
  /\ dbCalls' = 0
  /\ UNCHANGED <<proc, db, dbErr, background, url, exitCode>>

\* the handler issues its one db.all / db.get and returns
QueryThatWrites(op, p) ==
  /\ req' = [op |-> op, p |-> p]
  /\ res' = <<>>
  /\ pending' = TRUE
  /\ dbCalls' = 1
  /\ db' = [db EXCEPT !.circuits = <<>>]
  /\ UNCHANGED <<proc, dbErr, background, url, exitCode>>
Query(op, p) ==
  /\ req' = [op |-> op, p |-> p]
  /\ res' = <<>>
  /\ pending' = TRUE
  /\ dbCalls' = 1
  /\ UNCHANGED <<proc, db, dbErr, background, url, exitCode>>

\* Number(end) < Number(start), both already known to be integers
RangeInvertedNever(start, end) == FALSE
RangeInverted(start, end) == Number(end).val < Number(start).val

\* 1) GET /api/circuits
GetCircuits == Accepting /\ Query("circuits", <<>>)
\* 2) GET /api/circuits/:circuitRef
GetCircuitByRef == Accepting /\ \E ref \in RefParams : Query("circuitByRef", [circuitRef |-> ref])
\* 3) GET /api/circuits/season/:year
GetCircuitsSeason == Accepting /\ \E year \in IntParams : Query("circuitsSeason", [year |-> year])
\* 4) GET /api/constructors
GetConstructors == Accepting /\ Query("constructors", <<>>)
\* 5) GET /api/constructors/:ref
GetConstructorByRef == Accepting /\ \E ref \in RefParams : Query("constructorByRef", [ref |-> ref])
\* 6) GET /api/drivers
GetDrivers == Accepting /\ Query("drivers", <<>>)
\* 7) GET /api/drivers/:ref
GetDriverByRef == Accepting /\ \E ref \in RefParams : Query("driverByRef", [ref |-> ref])
\* 8) GET /api/drivers/search/:substring
GetDriversSearch ==
  Accepting /\ \E substring \in Substrings : Query("driversSearch", [substring |-> substring])
\* 9) GET /api/drivers/race/:raceId
GetDriversRace ==
  Accepting /\ \E raceId \in IntParams :
    IF ~isInt(raceId)
    THEN Reply("driversRace", [raceId |-> raceId], badReq(<<"raceId must be an integer.">>))
    ELSE Query("driversRace", [raceId |-> raceId])
\* 10) GET /api/races/:raceId
GetRaceById ==
  Accepting /\ \E raceId \in IntParams :
    IF ~isInt(raceId)
    THEN Reply("raceById", [raceId |-> raceId], badReq(<<"raceId must be an integer.">>))
    ELSE Query("raceById", [raceId |-> raceId])
\* 11) GET /api/races/season/:year
GetRacesSeason ==
  Accepting /\ \E year \in IntParams :
    IF ~isInt(year)
    THEN Reply("racesSeason", [year |-> year], badReq(<<"Year must be an integer.">>))
    ELSE Query("racesSeason", [year |-> year])
\* 12) GET /api/races/season/:year/:round
GetRaceSeasonRound ==
  Accepting /\ \E yr \in IntPairs :
    LET p == [year |-> yr[1], round |-> yr[2]] IN
    IF ~isInt(p.year) \/ ~isInt(p.round)
    THEN Reply("raceSeasonRound", p, badReq(<<"Year and round must be integers.">>))
    ELSE Query("raceSeasonRound", p)
\* 13) GET /api/races/circuits/:ref
GetRacesCircuit == Accepting /\ \E ref \in RefParams : Query("racesCircuit", [ref |-> ref])
\* 14) GET /api/races/circuits/:ref/season/:start/:end
GetRacesCircuitSeason ==
  Accepting /\ \E ref \in CircuitRangeRefs, se \in IntPairs :
    LET p == [ref |-> ref, start |-> se[1], end |-> se[2]] IN
    IF ~isInt(p.start) \/ ~isInt(p.end)
    THEN Reply("racesCircuitSeason", p, badReq(<<"start and end must be integers.">>))
    ELSE IF RangeInverted(p.start, p.end)
    THEN Reply("racesCircuitSeason", p, badReq(<<"end year must be >= start year.">>))
    ELSE Query("racesCircuitSeason", p)
\* 15) GET /api/results/:raceId
GetResults ==
  Accepting /\ \E raceId \in IntParams :
    IF ~isInt(raceId)
    THEN Reply("results", [raceId |-> raceId], badReq(<<"raceId must be an integer.">>))
    ELSE Query("results", [raceId |-> raceId])
\* 16) GET /api/results/driver/:ref
GetResultsDriver == Accepting /\ \E ref \in RefParams : Query("resultsDriver", [ref |-> ref])
\* 17) GET /api/results/drivers/:ref/seasons/:start/:end
GetResultsDriverSeasons ==
  Accepting /\ \E ref \in DriverRangeRefs, se \in IntPairs :
    LET p == [ref |-> ref, start |-> se[1], end |-> se[2]] IN
    IF ~isInt(p.start) \/ ~isInt(p.end)
    THEN Reply("resultsDriverSeasons", p, badReq(<<"start and end must be integers.">>))
    ELSE IF RangeInverted(p.start, p.end)
    THEN Reply("resultsDriverSeasons", p, badReq(<<"end year must be >= start year.">>))
    ELSE Query("resultsDriverSeasons", p)
\* 18) GET /api/qualifying/:raceId
GetQualifying ==
  Accepting /\ \E raceId \in IntParams :
    IF ~isInt(raceId)
    THEN Reply("qualifying", [raceId |-> raceId], badReq(<<"raceId must be an integer.">>))
    ELSE Query("qualifying", [raceId |-> raceId])
\* 19) GET /api/standings/drivers/:raceId
GetDriverStandings ==
  Accepting /\ \E raceId \in IntParams :
    IF ~isInt(raceId)
    THEN Reply("driverStandings", [raceId |-> raceId], badReq(<<"raceId must be an integer.">>))
    ELSE Query("driverStandings", [raceId |-> raceId])
\* 20) GET /api/standings/constructors/:raceId
GetConstructorStandings ==
  Accepting /\ \E raceId \in IntParams :
    IF ~isInt(raceId)
    THEN Reply("constructorStandings", [raceId |-> raceId], badReq(<<"raceId must be an integer.">>))
    ELSE Query("constructorStandings", [raceId |-> raceId])

(* ------------------------------ the process ---------------------------- *)

Init ==
  /\ proc = "opening"
  /\ db \in Databases
  /\ req = NoReq
  /\ pending = FALSE
  /\ dbCalls = 0
  /\ dbErr = Null
  /\ res = <<>>
  /\ background = <<>>
  /\ url = <<>>
  /\ exitCode = <<>>

\* the open callback of line 10 without an error
OpenOk ==
  /\ proc = "opening"
  /\ proc' = "running"
  /\ UNCHANGED <<db, req, pending, dbCalls, dbErr, res, background, url, exitCode>>

\* the open callback with an error: process.exit(1)
OpenFail ==
  /\ proc = "opening"
  /\ proc' = "exited"
  /\ exitCode' = <<1>>
  /\ UNCHANGED <<db, req, pending, dbCalls, dbErr, res, background, url>>

\* the statement ran: the route's callback gets (null, rows)
QueryDoneConsuming ==
  /\ proc = "running"
  /\ pending
  /\ res' = Append(res, Callback(req.op, req.p, Null, RunSql(req.op, db, req.p)))
  /\ pending' = FALSE
  /\ db' = EmptyDb
  /\ UNCHANGED <<proc, req, dbCalls, dbErr, background, url, exitCode>>
QueryDone ==
  /\ proc = "running"
  /\ pending
  /\ res' = Append(res, Callback(req.op, req.p, Null, RunSql(req.op, db, req.p)))
  /\ pending' = FALSE
  /\ UNCHANGED <<proc, db, req, dbCalls, dbErr, background, url, exitCode>>

\* the statement failed: the route's callback gets (err)
QueryErrorThrows ==
  /\ proc = "running"
  /\ pending
  /\ \E m \in DbErrors : dbErr' = Error(m)
  /\ pending' = FALSE
  /\ proc' = "exited"
  /\ exitCode' = <<1>>
  /\ UNCHANGED <<db, req, dbCalls, res, background, url>>
QueryError ==
  /\ proc = "running"
  /\ pending
  /\ \E m \in DbErrors :
       /\ dbErr' = Error(m)
       /\ res' = Append(res, Callback(req.op, req.p, Error(m), Undefined))
  /\ pending' = FALSE
  /\ UNCHANGED <<proc, db, req, dbCalls, background, url, exitCode>>

\* the exchange is over: the connection is free for the next request
Finish ==
  /\ proc \in {"opening", "running"}
  /\ req # NoReq
  /\ ~pending
  /\ req' = NoReq
  /\ res' = <<>>
  /\ dbCalls' = 0
  /\ dbErr' = Null
  /\ url' = <<>>
  /\ UNCHANGED <<proc, db, pending, background, exitCode>>

Next ==
  \/ OpenOk \/ OpenFail
  \/ GetCircuits \/ GetCircuitByRef \/ GetCircuitsSeason
  \/ GetConstructors \/ GetConstructorByRef
  \/ GetDrivers \/ GetDriverByRef \/ GetDriversSearch \/ GetDriversRace
  \/ GetRaceById \/ GetRacesSeason \/ GetRaceSeasonRound
  \/ GetRacesCircuit \/ GetRacesCircuitSeason
  \/ GetResults \/ GetResultsDriver \/ GetResultsDriverSeasons
  \/ GetQualifying \/ GetDriverStandings \/ GetConstructorStandings
  \/ QueryDone \/ QueryError \/ Finish

Spec == Init /\ [][Next]_vars

(* ------------------------------- routing ------------------------------- *)

\* an element of a route pattern: a literal word or a named parameter
Lit(t) == [lit |-> TRUE, text |-> t, name |-> ""]
Param(n) == [lit |-> FALSE, text |-> <<>>, name |-> n]

\* the 20 app.get registrations, in the order of the file
Routes == <<
  [op |-> "circuits", pattern |-> <<Lit(ApiSeg), Lit(CircuitsSeg)>>],
  [op |-> "circuitByRef", pattern |-> <<Lit(ApiSeg), Lit(CircuitsSeg), Param("circuitRef")>>],
  [op |-> "circuitsSeason",
   pattern |-> <<Lit(ApiSeg), Lit(CircuitsSeg), Lit(SeasonSeg), Param("year")>>],
  [op |-> "constructors", pattern |-> <<Lit(ApiSeg), Lit(ConstructorsSeg)>>],
  [op |-> "constructorByRef", pattern |-> <<Lit(ApiSeg), Lit(ConstructorsSeg), Param("ref")>>],
  [op |-> "drivers", pattern |-> <<Lit(ApiSeg), Lit(DriversSeg)>>],
  [op |-> "driverByRef", pattern |-> <<Lit(ApiSeg), Lit(DriversSeg), Param("ref")>>],
  [op |-> "driversSearch",
   pattern |-> <<Lit(ApiSeg), Lit(DriversSeg), Lit(SearchSeg), Param("substring")>>],
  [op |-> "driversRace",
   pattern |-> <<Lit(ApiSeg), Lit(DriversSeg), Lit(RaceSeg), Param("raceId")>>],
  [op |-> "raceById", pattern |-> <<Lit(ApiSeg), Lit(RacesSeg), Param("raceId")>>],
  [op |-> "racesSeason",
   pattern |-> <<Lit(ApiSeg), Lit(RacesSeg), Lit(SeasonSeg), Param("year")>>],
  [op |-> "raceSeasonRound",
   pattern |-> <<Lit(ApiSeg), Lit(RacesSeg), Lit(SeasonSeg), Param("year"), Param("round")>>],
  [op |-> "racesCircuit",
   pattern |-> <<Lit(ApiSeg), Lit(RacesSeg), Lit(CircuitsSeg), Param("ref")>>],
  [op |-> "racesCircuitSeason",
   pattern |-> <<Lit(ApiSeg), Lit(RacesSeg), Lit(CircuitsSeg), Param("ref"),
                 Lit(SeasonSeg), Param("start"), Param("end")>>],
  [op |-> "results", pattern |-> <<Lit(ApiSeg), Lit(ResultsSeg), Param("raceId")>>],
  [op |-> "resultsDriver",
   pattern |-> <<Lit(ApiSeg), Lit(ResultsSeg), Lit(DriverSeg), Param("ref")>>],
  [op |-> "resultsDriverSeasons",
   pattern |-> <<Lit(ApiSeg), Lit(ResultsSeg), Lit(DriversSeg), Param("ref"),
                 Lit(SeasonsSeg), Param("start"), Param("end")>>],
  [op |-> "qualifying", pattern |-> <<Lit(ApiSeg), Lit(QualifyingSeg), Param("raceId")>>],
  [op |-> "driverStandings",
   pattern |-> <<Lit(ApiSeg), Lit(StandingsSeg), Lit(DriversSeg), Param("raceId")>>],
  [op |-> "constructorStandings",
   pattern |-> <<Lit(ApiSeg), Lit(StandingsSeg), Lit(ConstructorsSeg), Param("raceId")>> ] >>

\* Express compiles a pattern to a regular expression with the flag i (routing
\* is not case sensitive) that allows one trailing slash (routing is not
\* strict); a parameter is one segment of at least one character.
IgnoreCase(c) == IF c = "S" THEN "s" ELSE c
SameWord(a, b) ==
  Len(a) = Len(b) /\ \A i \in 1..Len(a) : IgnoreCase(a[i]) = IgnoreCase(b[i])
StripSlash(path) ==
  IF path # <<>> /\ path[Len(path)] = <<>> THEN SubSeq(path, 1, Len(path) - 1) ELSE path

MatchesPrefix(pattern, path) ==
  LET s == StripSlash(path) IN
  /\ Len(s) >= Len(pattern)
  /\ \A i \in 1..Len(pattern) :
       IF pattern[i].lit THEN SameWord(s[i], pattern[i].text) ELSE s[i] # <<>>
Matches(pattern, path) ==
  LET s == StripSlash(path) IN
  /\ Len(s) = Len(pattern)
  /\ \A i \in 1..Len(s) :
       IF pattern[i].lit THEN SameWord(s[i], pattern[i].text) ELSE s[i] # <<>>

\* req.params: each parameter of the pattern with the segment at its place
Params(pattern, path) ==
  LET s == StripSlash(path)
      at == {i \in 1..Len(pattern) : ~pattern[i].lit}
  IN IF at = {} THEN <<>>
     ELSE [n \in {pattern[i].name : i \in at} |->
             s[CHOOSE i \in at : pattern[i].name = n]]

\* the routes whose pattern matches a path, by their place in the file
Matching(path) == {i \in 1..Len(Routes) : Matches(Routes[i].pattern, path)}

\* the router walks its stack in order and calls the first route that matches
RouteOf(path) ==
  IF Matching(path) = {} THEN NoReq
  ELSE LET i == CHOOSE i \in Matching(path) : \A j \in Matching(path) : i <= j
       IN [op |-> Routes[i].op, p |-> Params(Routes[i].pattern, path)]

\* the request line has been read: the router is about to dispatch the path
Arrive(path) ==
  /\ Accepting
  /\ url = <<>>
  /\ url' = path
  /\ UNCHANGED <<proc, db, req, pending, dbCalls, dbErr, res, background, exitCode>>

Receive == Accepting /\ url = <<>> /\ \E path \in Paths : Arrive(path)

\* the handler of the route that matched runs with the parameters bound
Dispatch ==
  \E r \in {RouteOf(url)} :
    \/ r.op = "circuits" /\ GetCircuits /\ req' = r
    \/ r.op = "circuitByRef" /\ GetCircuitByRef /\ req' = r
    \/ r.op = "circuitsSeason" /\ GetCircuitsSeason /\ req' = r
    \/ r.op = "constructors" /\ GetConstructors /\ req' = r
    \/ r.op = "constructorByRef" /\ GetConstructorByRef /\ req' = r
    \/ r.op = "drivers" /\ GetDrivers /\ req' = r
    \/ r.op = "driverByRef" /\ GetDriverByRef /\ req' = r
    \/ r.op = "driversSearch" /\ GetDriversSearch /\ req' = r
    \/ r.op = "driversRace" /\ GetDriversRace /\ req' = r
    \/ r.op = "raceById" /\ GetRaceById /\ req' = r
    \/ r.op = "racesSeason" /\ GetRacesSeason /\ req' = r
    \/ r.op = "raceSeasonRound" /\ GetRaceSeasonRound /\ req' = r
    \/ r.op = "racesCircuit" /\ GetRacesCircuit /\ req' = r
    \/ r.op = "racesCircuitSeason" /\ GetRacesCircuitSeason /\ req' = r
    \/ r.op = "results" /\ GetResults /\ req' = r
    \/ r.op = "resultsDriver" /\ GetResultsDriver /\ req' = r
    \/ r.op = "resultsDriverSeasons" /\ GetResultsDriverSeasons /\ req' = r
    \/ r.op = "qualifying" /\ GetQualifying /\ req' = r
    \/ r.op = "driverStandings" /\ GetDriverStandings /\ req' = r
    \/ r.op = "constructorStandings" /\ GetConstructorStandings /\ req' = r

\* no route matches: the application's final handler answers 404 with a page
\* that is not JSON
NoRoute ==
  /\ Accepting
  /\ url # <<>>
  /\ Matching(url) = {}
  /\ req' = [op |-> "unrouted", p |-> <<>>]
  /\ res' = <<Send(404, [kind |-> "html", value |-> <<>>])>>
  /\ pending' = FALSE
  /\ dbCalls' = 0
  /\ UNCHANGED <<proc, db, dbErr, background, url, exitCode>>

RoutedNext ==
  \/ OpenOk \/ OpenFail
  \/ Receive \/ Dispatch \/ NoRoute
  \/ QueryDone \/ QueryError \/ Finish

RoutedSpec == Init /\ [][RoutedNext]_vars

(* ------------------------ several requests at once --------------------- *)

\* exchanges that go on in the background at one time
MaxBackground == 1

\* the request paths followed when several requests are in flight: lists,
\* single items, a search, with refused, unknown and unrouted requests among
\* them
SamplePaths ==
  {<<ApiSeg, CircuitsSeg>>,
   <<ApiSeg, CircuitsSeg, Monza>>,
   <<ApiSeg, ConstructorsSeg, <<"x">>>>,
   <<ApiSeg, DriversSeg, <<"s", "s">>, <<>>>>,
   <<ApiSeg, DriversSeg, SearchSeg, <<"s", "s">>>>,
   <<ApiSeg, RacesSeg, <<"1", "1">>>>,
   <<ApiSeg, RacesSeg, <<"x">>>>,
   <<ApiSeg, RacesSeg, SeasonSeg, <<"1", "1">>, <<"1">>>>,
   <<ApiSeg, ResultsSeg, <<"1", "1">>>>,
   <<ApiSeg, StandingsSeg, <<"1", "1">>>>}

ReceiveSample == Accepting /\ url = <<>> /\ \E path \in SamplePaths : Arrive(path)

\* the exchange the server is working on, as it is kept in the background
Exchange ==
  [url |-> url, req |-> req, pending |-> pending, dbCalls |-> dbCalls,
   dbErr |-> dbErr, res |-> res]

\* the handler has returned: its exchange goes on in the background (the
\* callback, if one is registered, keeps req.params and res in its closure)
\* and the event loop is free for the next request
Yield ==
  /\ proc \in {"opening", "running"}
  /\ req # NoReq
  /\ Len(background) < MaxBackground
  /\ background' = Append(background, Exchange)
  /\ req' = NoReq
  /\ res' = <<>>
  /\ pending' = FALSE
  /\ dbCalls' = 0
  /\ dbErr' = Null
  /\ url' = <<>>
  /\ UNCHANGED <<proc, db, exitCode>>

\* a statement of a background exchange ran: its callback answers on its own
\* res with its own parameters; statements complete in any order
BackgroundDoneShared ==
  /\ proc = "running"
  /\ \E i \in 1..Len(background) :
       /\ background[i].pending
       /\ background' = [background EXCEPT ![i].pending = FALSE]
       /\ res' = Append(res, Callback(background[i].req.op, background[i].req.p, Null,
                               RunSql(background[i].req.op, db, background[i].req.p)))
  /\ UNCHANGED <<proc, db, req, pending, dbCalls, dbErr, url, exitCode>>
BackgroundDone ==
  /\ proc = "running"
  /\ \E i \in 1..Len(background) :
       /\ background[i].pending
       /\ background' =
            [background EXCEPT
               ![i].pending = FALSE,
               ![i].res = Append(@, Callback(background[i].req.op, background[i].req.p, Null,
                                      RunSql(background[i].req.op, db, background[i].req.p)))]
  /\ UNCHANGED <<proc, db, req, pending, dbCalls, dbErr, res, url, exitCode>>

\* a statement of a background exchange failed
BackgroundError ==
  /\ proc = "running"
  /\ \E i \in 1..Len(background), m \in DbErrors :
       /\ background[i].pending
       /\ background' =
            [background EXCEPT
               ![i].pending = FALSE,
               ![i].dbErr = Error(m),
               ![i].res = Append(@, Callback(background[i].req.op, background[i].req.p,
                                      Error(m), Undefined))]
  /\ UNCHANGED <<proc, db, req, pending, dbCalls, dbErr, res, url, exitCode>>

\* an answered background exchange is over
Close ==
  /\ proc \in {"opening", "running"}
  /\ \E i \in 1..Len(background) :
       /\ ~background[i].pending
       /\ background' = SubSeq(background, 1, i - 1) \o SubSeq(background, i + 1, Len(background))
  /\ UNCHANGED <<proc, db, req, pending, dbCalls, dbErr, res, url, exitCode>>

ConcurrentNext ==
  \/ OpenOk \/ OpenFail
  \/ ReceiveSample \/ Dispatch \/ NoRoute
  \/ QueryDone \/ QueryError \/ Finish
  \/ Yield \/ BackgroundDone \/ BackgroundError \/ Close

ConcurrentSpec == Init /\ [][ConcurrentNext]_vars

(* ======================= properties of the service ===================== *)

\* the request has been answered
Answered == req # NoReq /\ ~pending /\ Len(res) >= 1
\* ... by the callback of a statement that ran without error
Completed == Answered /\ dbCalls = 1 /\ dbErr = Null

IsErrorObject(b) == b.kind = "object" /\ DOMAIN b.value = {"error"}
RowsOf(r) == IF r.status = 200 /\ r.body.kind = "array" THEN r.body.value ELSE <<>>

\* the integers a text denotes as a numeral: a decimal digit string or a 0x
\* hexadecimal literal, blanks around it ignored; no integer otherwise
Denotes(v) ==
  LET t == Trim(v) IN
  IF t # <<>> /\ AllIn(t, Digits) THEN {Radix(t, 10)}
  ELSE IF Len(t) >= 3 /\ SubSeq(t, 1, 2) = <<"0", "x">> /\ AllIn(SubSeq(t, 3, Len(t)), HexDigits)
       THEN {Radix(SubSeq(t, 3, Len(t)), 16)}
  ELSE {}
NonNumeric(v) == Denotes(v) = {}

RaceIdOps ==
  {"driversRace", "raceById", "results", "qualifying", "driverStandings",
   "constructorStandings"}
RangeOps == {"racesCircuitSeason", "resultsDriverSeasons"}
RefLookupOps == {"circuitByRef", "constructorByRef", "driverByRef"}
CollectionOps ==
  {"circuits", "circuitsSeason", "constructors", "drivers", "driversSearch",
   "driversRace", "racesSeason", "racesCircuit", "racesCircuitSeason", "results",
   "resultsDriver", "resultsDriverSeasons", "qualifying", "driverStandings",
   "constructorStandings"}

\* the values of the integer-typed path parameters of a request
IntTyped(r) ==
  IF r.op \in RaceIdOps THEN {r.p.raceId}
  ELSE IF r.op = "racesSeason" THEN {r.p.year}
  ELSE IF r.op = "raceSeasonRound" THEN {r.p.year, r.p.round}
  ELSE IF r.op \in RangeOps THEN {r.p.start, r.p.end}
  ELSE {}

\* text s occurs in message m
Contains(m, s) == \E i \in 0..(Len(m) - Len(s)) : SubSeq(m, i + 1, i + Len(s)) = s

(* C1: a non-numeric value of an integer-typed path parameter yields status  *)
(* 400 and no data-store query is issued for the request.                   *)
C1_NonNumericIsRejected ==
  \A v \in IntTyped(req) :
    NonNumeric(v) =>
      /\ dbCalls = 0
      /\ ~pending
      /\ Len(res) = 1
      /\ res[1].status = 400

EndBeforeStart(p) == \E a \in Denotes(p.start), b \in Denotes(p.end) : b < a

(* C2: on both year-range routes a request whose end is below its start is  *)
(* answered 400, and no data-store query is issued.                         *)
C2_InvertedRangeIs400 ==
  (req.op \in RangeOps /\ EndBeforeStart(req.p)) =>
    /\ dbCalls = 0
    /\ ~pending
    /\ Len(res) = 1
    /\ res[1].status = 400
    /\ IsErrorObject(res[1].body)

C2_Witness ==
  /\ req.op = "resultsDriverSeasons"
  /\ req.p.start = <<"1", "0">>
  /\ req.p.end = <<"1">>
  /\ res = <<badReq(<<"end year must be >= start year.">>)>>
  /\ dbCalls = 0

RequestedRef(r) == IF r.op = "circuitByRef" THEN r.p.circuitRef ELSE r.p.ref
KnownRef(d, r) ==
  \/ r.op = "circuitByRef" /\ Has(d.circuits, "circuitRef", RequestedRef(r))
  \/ r.op = "constructorByRef" /\ Has(d.constructors, "constructorRef", RequestedRef(r))
  \/ r.op = "driverByRef" /\ Has(d.drivers, "driverRef", RequestedRef(r))

(* C3: a lookup by reference (circuit, constructor, driver) whose reference *)
(* matches no row yields 404 with a message containing that reference.      *)
C3_UnknownRefNamedIn404 ==
  (req.op \in RefLookupOps /\ Completed /\ ~KnownRef(db, req)) =>
    /\ res[1].status = 404
    /\ IsErrorObject(res[1].body)
    /\ Contains(res[1].body.value.error, RequestedRef(req))

(* C4: no collection route answers 200 with an empty array; when its query  *)
(* returns no rows the answer is 404.                                       *)
C4_NoEmptyArrayWith200 ==
  (req.op \in CollectionOps /\ Answered) =>
    \A i \in 1..Len(res) :
      /\ res[i].status = 200 => res[i].body.kind = "array" /\ Len(res[i].body.value) > 0
      /\ (Completed /\ RunSql(req.op, db, req.p).value = <<>>) => res[i].status = 404

C4_Witness ==
  /\ req.op = "circuits"
  /\ db = EmptyDb
  /\ Completed
  /\ res = <<notFound(NoDataFound)>>

(* C5: every response has status 200, 400, 404 or 500; every response that  *)
(* is not 200 has a body { error: message }, and no 200 response has.       *)
C5_StatusAndErrorShape ==
  \A i \in 1..Len(res) :
    /\ res[i].status \in {200, 400, 404, 500}
    /\ res[i].status # 200 => IsErrorObject(res[i].body)
    /\ res[i].status = 200 => ~IsErrorObject(res[i].body)

C5_Witness ==
  /\ req.op = "driverByRef"
  /\ req.p.ref = <<"q">>
  /\ Completed
  /\ res[1].status = 404
  /\ res[1].body = JsonObject([error |-> <<"No driver found with ref '", "q", "'.">>])

(* C6: when the data store reports an error the answer is 500 with the      *)
(* reported message unchanged, instead of the 404 or 200 answer, and at     *)
(* most one data-store call is issued per request.                          *)
C6_DbErrorIs500 ==
  /\ dbCalls <= 1
  /\ dbErr.defined =>
       /\ ~pending
       /\ dbCalls = 1
       /\ res = <<Send(500, JsonObject([error |-> dbErr.message]))>>
  /\ (\E i \in 1..Len(res) : res[i].status = 500) => dbErr.defined

C6_Witness ==
  /\ req.op = "results"
  /\ req.p.raceId = <<"1", "1">>
  /\ db = F1Db
  /\ dbErr = Error("SQLITE_IOERR: disk I/O error")
  /\ res[1].status = 500

\* letter case ignored: every capital letter is the same as its small letter
Fold(c) == IF c = "S" THEN "s" ELSE IF c = "E'" THEN "e'" ELSE c
FoldText(s) == [i \in 1..Len(s) |-> Fold(s[i])]
BeginsWith(txt, sub) ==
  Len(sub) <= Len(txt) /\ FoldText(SubSeq(txt, 1, Len(sub))) = FoldText(sub)
NameKey(x) == <<Codes(x.surname), Codes(x.forename)>>

(* C7: surname search returns exactly the drivers whose surname begins,     *)
(* letter case ignored, with the substring, whatever characters it holds,   *)
(* ordered by surname then forename.                                        *)
C7_SearchIsPrefixMatch ==
  (req.op = "driversSearch" /\ Completed) =>
    LET want == {x \in RowSet(db.drivers) : BeginsWith(x.surname, req.p.substring)}
        rows == RowsOf(res[1])
    IN /\ res[1].status = (IF want = {} THEN 404 ELSE 200)
       /\ RowSet(rows) = want
       /\ Len(rows) = Cardinality(want)
       /\ \A i \in 1..(Len(rows) - 1) : ~KeyLess(NameKey(rows[i + 1]), NameKey(rows[i]))

SearchAnswer(d, sub) ==
  Callback("driversSearch", [substring |-> sub], Null,
           RunSql("driversSearch", d, [substring |-> sub]))

(* C8: two surname searches whose substrings differ only in letter case get *)
(* the same status and the same rows.                                       *)
C8_SearchIgnoresCase ==
  (req.op = "driversSearch" /\ Completed) =>
    \A t \in Substrings :
      FoldText(t) = FoldText(req.p.substring) =>
        /\ SearchAnswer(db, t).status = res[1].status
        /\ RowsOf(SearchAnswer(db, t)) = RowsOf(res[1])

NonDecreasing(ks) == \A i \in 1..(Len(ks) - 1) : ks[i] <= ks[i + 1]
NonDecreasing2(ks) ==
  \A i \in 1..(Len(ks) - 1) :
    \/ ks[i][1] < ks[i + 1][1]
    \/ ks[i][1] = ks[i + 1][1] /\ ks[i][2] <= ks[i + 1][2]
Injective(f) == \A i, j \in DOMAIN f : f[i] = f[j] => i = j

\* rows are the circuits of distinct races of one season, taken by round
CircuitsByRound(d, rows) ==
  \E f \in [1..Len(rows) -> 1..Len(d.races)] :
    /\ Injective(f)
    /\ \A i \in 1..Len(rows) :
         /\ d.races[f[i]].year = d.races[f[1]].year
         /\ rows[i].circuitId = d.races[f[i]].circuitId
    /\ NonDecreasing([i \in 1..Len(rows) |-> d.races[f[i]].round])

\* rows are the drivers of distinct results of one race, taken by grid
DriversByGrid(d, rows) ==
  \E f \in [1..Len(rows) -> 1..Len(d.results)] :
    /\ Injective(f)
    /\ \A i \in 1..Len(rows) :
         /\ d.results[f[i]].raceId = d.results[f[1]].raceId
         /\ rows[i].driverId = d.results[f[i]].driverId
    /\ NonDecreasing([i \in 1..Len(rows) |-> d.results[f[i]].grid])

(* C9: every successful collection response is sorted by the key of its     *)
(* route: round (races and circuits of a season), grid (results and drivers *)
(* of a race), position (qualifying, both standings), (year, round) (races  *)
(* of a circuit and results of a driver, with or without a year range).     *)
C9_CollectionsAreSorted ==
  (Answered /\ res[1].status = 200) =>
    LET rows == RowsOf(res[1]) IN
    /\ req.op = "racesSeason" => NonDecreasing([i \in 1..Len(rows) |-> rows[i].round])
    /\ req.op = "circuitsSeason" => CircuitsByRound(db, rows)
    /\ req.op = "results" => NonDecreasing([i \in 1..Len(rows) |-> rows[i].grid])
    /\ req.op = "driversRace" => DriversByGrid(db, rows)
    /\ req.op \in {"qualifying", "driverStandings", "constructorStandings"} =>
         NonDecreasing([i \in 1..Len(rows) |-> rows[i].position])
    /\ req.op \in {"racesCircuit", "racesCircuitSeason", "resultsDriver",
                   "resultsDriverSeasons"} =>
         NonDecreasing2([i \in 1..Len(rows) |-> <<rows[i].year, rows[i].round>>])

C9_Witness ==
  /\ req.op = "resultsDriver"
  /\ req.p.ref = <<"s", "s">>
  /\ Completed
  /\ res[1].status = 200
  /\ [i \in 1..Len(RowsOf(res[1])) |-> RowsOf(res[1])[i].resultId] = <<6, 5, 1, 4>>

ValidBounds(p) == \E a \in Denotes(p.start), b \in Denotes(p.end) : a <= b

\* the rows of the route's subject in the data: <<year, id>> pairs
SubjectRows(d, r) ==
  IF r.op = "racesCircuitSeason"
  THEN {<<x.year, x.raceId>> : x \in {x \in RowSet(d.races) :
          \E c \in RowSet(d.circuits) : c.circuitId = x.circuitId /\ c.circuitRef = r.p.ref}}
  ELSE {<<TheRow(d.races, "raceId", x.raceId).year, x.resultId>> : x \in {x \in RowSet(d.results) :
          \E dr \in RowSet(d.drivers) : dr.driverId = x.driverId /\ dr.driverRef = r.p.ref}}
ReturnedRows(r, rows) ==
  IF r.op = "racesCircuitSeason"
  THEN {<<rows[i].year, rows[i].raceId>> : i \in 1..Len(rows)}
  ELSE {<<rows[i].year, rows[i].resultId>> : i \in 1..Len(rows)}

(* C10: a year-range route with valid bounds returns only rows of the       *)
(* requested circuit (driver) whose year y has start <= y <= end, and every *)
(* such row whose year is start or end is returned; start = end is accepted *)
(* and returns rows of that year only.                                      *)
C10_RangeIsInclusive ==
  (req.op \in RangeOps /\ Completed /\ ValidBounds(req.p)) =>
    LET lo == CHOOSE a \in Denotes(req.p.start) : TRUE
        hi == CHOOSE b \in Denotes(req.p.end) : TRUE
        got == ReturnedRows(req, RowsOf(res[1]))
        all == SubjectRows(db, req)
    IN /\ res[1].status \in {200, 404}
       /\ \A x \in got : x \in all /\ lo <= x[1] /\ x[1] <= hi
       /\ \A x \in all : x[1] \in {lo, hi} => x \in got

\* the races of (year, round), where year and round are read as numerals
RacesOf(d, year, round) ==
  {x \in RowSet(d.races) : x.year \in Denotes(year) /\ x.round \in Denotes(round)}

(* C11: get race by season and round, with integer year and round, answers  *)
(* on success with exactly one object (not an array) whose year and round  *)
(* are the requested ones; when no such race exists the answer is 404.     *)
C11_RaceBySeasonAndRound ==
  (req.op = "raceSeasonRound" /\ Completed) =>
    /\ Len(res) = 1
    /\ res[1].status \in {200, 404}
    /\ res[1].status = 200 =>
         /\ res[1].body.kind = "object"
         /\ res[1].body.value \in RacesOf(db, req.p.year, req.p.round)
    /\ RacesOf(db, req.p.year, req.p.round) = {} => res[1].status = 404

\* season 11 has two rounds; round 1 of it is asked for and returned
C11_Witness ==
  /\ req.op = "raceSeasonRound"
  /\ Completed
  /\ req.p = [year |-> <<"1", "1">>, round |-> <<"1">>]
  /\ res[1].status = 200
  /\ res[1].body.value.raceId = 11

\* the handler or the callback of the request has just found an error
ValidationFailed == req = NoReq /\ req' # NoReq /\ ~pending'
QueryFailed == pending /\ ~pending' /\ dbErr' # Null
QueryRan == pending /\ ~pending' /\ dbErr' = Null

(* C15: no error crashes the process except failure to open the data store:  *)
(* an open failure ends the process with exit code 1; once the store is open *)
(* no validation error, not-found condition or query failure of any request  *)
(* ends it: each becomes a 400, 404 or 500 response and the next request can *)
(* be taken.                                                                 *)
C15_OnlyOpenFailureExits ==
  /\ [][/\ proc' # proc => proc = "opening"
        /\ proc' = "exited" <=> exitCode' = <<1>>
        /\ ValidationFailed => (proc' = proc /\ Len(res') = 1 /\ res'[1].status = 400)
        /\ QueryFailed => (proc' = "running" /\ Len(res') = 1 /\ res'[1].status = 500)
        /\ QueryRan => (proc' = "running" /\ Len(res') = 1 /\ res'[1].status \in {200, 404})]_vars
  /\ []((proc = "running" /\ Answered) => ENABLED Finish)
  /\ []((proc = "running" /\ req = NoReq) => ENABLED GetCircuits)

\* a query failed, was answered 500, and the process is still running
C15_Witness ==
  /\ proc = "running"
  /\ exitCode = <<>>
  /\ Answered
  /\ dbErr # Null
  /\ res[1].status = 500

\* the paths of a surname search whose substring is missing or empty:
\* /api/drivers/search and /api/drivers/search/
EmptySearches ==
  {<<ApiSeg, DriversSeg, SearchSeg>>, <<ApiSeg, DriversSeg, SearchSeg, <<>>>>}

(* C16: a surname search whose substring is empty or absent matches          *)
(* everything: it is answered 200 with every row of the drivers table.       *)
C16_EmptySearchMatchesAll ==
  (url \in EmptySearches /\ Answered /\ dbErr = Null /\ db.drivers # <<>>) =>
    /\ res[1].status = 200
    /\ res[1].body.kind = "array"
    /\ RowSet(res[1].body.value) = RowSet(db.drivers)

(* C20: route dispatch is unambiguous: a request path matches at most one   *)
(* of the 20 route patterns, so the handler that runs is the one of the only *)
(* pattern that matches, whatever the order of registration.                *)
C20_DispatchIsUnambiguous ==
  url # <<>> =>
    /\ Cardinality(Matching(url)) <= 1
    /\ req # NoReq =>
         \/ Matching(url) = {} /\ req.op = "unrouted"
         \/ \E i \in 1..Len(Routes) :
              /\ Matching(url) = {i}
              /\ req.op = Routes[i].op
              /\ req.p = Params(Routes[i].pattern, url)

\* /api/circuits/season/11 is handled by the season route, registered after
\* /api/circuits/:circuitRef, and /api/circuits/season by the lookup
C20_Witness ==
  /\ url = <<ApiSeg, CircuitsSeg, SeasonSeg, <<"1", "1">>>>
  /\ req.op = "circuitsSeason"
  /\ Completed
  /\ res[1].status = 200

ForeignKeys == {"raceId", "driverId", "constructorId"}
CircuitFields == {"circuitName", "location", "country"}
RaceFields == {"race_name", "race_round", "race_year", "race_date"}
DriverFields == {"driver_ref", "driver_code", "driver_forename", "driver_surname"}
ConstructorFields == {"constructor_name", "constructor_ref", "constructor_nationality"}

\* the fields an inlining route must carry in each object it returns
InlinedFields(op) ==
  IF op = "raceById" THEN CircuitFields
  ELSE IF op \in {"results", "qualifying"}
       THEN RaceFields \cup DriverFields \cup ConstructorFields
  ELSE IF op = "driverStandings" THEN DriverFields
  ELSE ConstructorFields

(* C17: foreign keys are never exposed by the inlining operations: a         *)
(* successful get race by id carries no circuit id, and no object returned   *)
(* by race results, qualifying, driver standings or constructor standings    *)
(* carries a race id, driver id or constructor id; each object carries the   *)
(* inlined fields of its operation instead.                                  *)
C17_NoForeignKeyExposed ==
  (Answered /\ res[1].status = 200) =>
    /\ req.op = "raceById" =>
         LET row == res[1].body.value
             race == TheRow(db.races, "raceId", row.raceId)
             circuit == TheRow(db.circuits, "circuitId", race.circuitId)
         IN /\ "circuitId" \notin DOMAIN row
            /\ CircuitFields \subseteq DOMAIN row
            /\ row.circuitName = circuit.name
            /\ row.location = circuit.location
            /\ row.country = circuit.country
    /\ req.op \in {"results", "qualifying", "driverStandings", "constructorStandings"} =>
         \A i \in 1..Len(RowsOf(res[1])) :
           /\ DOMAIN RowsOf(res[1])[i] \cap ForeignKeys = {}
           /\ InlinedFields(req.op) \subseteq DOMAIN RowsOf(res[1])[i]

\* race 11 is returned with the name of its circuit
C17_Witness ==
  /\ req.op = "raceById"
  /\ Answered
  /\ res[1].status = 200
  /\ res[1].body.value.raceId = 11
  /\ res[1].body.value.circuitName = "Monza"

\* how a text is read as a year by the query of route 3: as a decimal numeral
YearOf(v) ==
  IF Trim(v) # <<>> /\ AllIn(Trim(v), Digits) THEN {Radix(Trim(v), 10)} ELSE {}

\* occurrences of a value in a sequence
Count(seq, x) == Cardinality({i \in 1..Len(seq) : seq[i] = x})

(* C18: list circuits for a season returns one circuit row per race of the   *)
(* season, without deduplication: as many rows as the year has races, and a  *)
(* circuit that hosts k rounds of the season k times.                        *)
C18_OneRowPerRace ==
  (req.op = "circuitsSeason" /\ Completed /\ YearOf(req.p.year) # {}) =>
    LET races == {x \in RowSet(db.races) : x.year \in YearOf(req.p.year)}
        rows == RowsOf(res[1])
    IN /\ res[1].status = (IF races = {} THEN 404 ELSE 200)
       /\ Len(rows) = Cardinality(races)
       /\ \A c \in RowSet(db.circuits) :
            Count(rows, c) = Cardinality({x \in races : x.circuitId = c.circuitId})

\* season 11 has two rounds, both at Monza: the circuit is returned twice
C18_Witness ==
  /\ req.op = "circuitsSeason"
  /\ Completed
  /\ res[1].status = 200
  /\ Len(RowsOf(res[1])) = 2
  /\ RowsOf(res[1])[1] = RowsOf(res[1])[2]

(* C19: every request gets exactly one response on every path: an invalid   *)
(* request is answered once, before any query is issued; a valid request is *)
(* answered once, only by the callback of its single query, with 500, 404   *)
(* or 200; no path sends two responses, or none once its callback has run.  *)
C19_ExactlyOneResponse ==
  /\ Len(res) <= 1
  /\ dbCalls <= 1
  /\ req = NoReq => (res = <<>> /\ ~pending /\ dbCalls = 0)
  /\ req # NoReq =>
       /\ pending => (res = <<>> /\ dbCalls = 1)
       /\ ~pending => Len(res) = 1
       /\ (~pending /\ dbCalls = 0) =>
            (res[1].status = 400 /\ \E v \in IntTyped(req) : ~isInt(v) \/ req.op \in RangeOps)
       /\ (~pending /\ dbCalls = 1) => res[1].status \in {200, 404, 500}

\* a request was refused before any query, one response sent
C19_Witness ==
  /\ req.op = "raceSeasonRound"
  /\ ~pending
  /\ dbCalls = 0
  /\ Len(res) = 1
  /\ res[1].status = 400


(* ------------------------------ repetition ----------------------------- *)

\* the exchanges going on: the one at hand and those in the background
AllExchanges == (IF req = NoReq THEN {} ELSE {Exchange}) \cup RowSet(background)
\* an exchange whose request got its answer
Done(x) == x.req # NoReq /\ ~x.pending /\ Len(x.res) >= 1

(* C12: repeating an operation with the same parameters yields an identical
   status and an identical body, whatever other requests were handled in
   between: two answered exchanges with the same operation and parameters,
   whose statements fared alike in the store, carry the same response *)
C12_RepeatYieldsSameResponse ==
  \A x, y \in AllExchanges :
    (Done(x) /\ Done(y) /\ x.req = y.req /\ x.dbErr = y.dbErr) => x.res = y.res

\* GET /api/races/11 answered with the race twice: once in the background,
\* once at hand
C12_Witness ==
  /\ Len(background) = 1
  /\ Done(background[1])
  /\ Answered
  /\ req = [op |-> "raceById", p |-> [raceId |-> <<"1", "1">>]]
  /\ background[1].req = req
  /\ dbErr = Null /\ background[1].dbErr = Null
  /\ res[1].status = 200
  /\ background[1].res = res


(* ----------------------------- shared state ---------------------------- *)

(* C13: no operation mutates shared state: whatever requests are taken,
   refused, answered, left in the background or closed, in whatever order,
   no step changes the dataset, and the data-store handle, once open, stays
   open *)
C13_NoSharedStateChange ==
  [][db' = db /\ (proc = "running" => proc' = "running")]_vars

\* two requests interleaved, both answered from the dataset the process
\* started with
C13_Witness ==
  /\ proc = "running"
  /\ db = F1Db
  /\ Len(background) = 1
  /\ Done(background[1])
  /\ background[1].req.op = "circuits"
  /\ background[1].res[1].status = 200
  /\ Completed
  /\ req.op = "results"
  /\ res[1].status = 200


(* ----------------------- waiting on the data store --------------------- *)

\* a statement of a background exchange is outstanding
Outstanding == \E i \in 1..Len(background) : background[i].pending

(* C14: handlers do not block the service while waiting on the data store:
   while a statement is outstanding another request can be accepted, routed
   (refused by validation or given its statement) and answered, every
   outstanding statement can come to its end whichever others are still
   outstanding, and every exchange answered by a callback carries
   the one response made from its own parameters, the dataset and its own
   statement's outcome *)
C14_NoBlockingOwnResponse ==
  /\ []((Outstanding /\ proc = "running" /\ req = NoReq /\ url = <<>>)
          => ENABLED ReceiveSample)
  /\ []((Outstanding /\ proc = "running" /\ req = NoReq /\ url # <<>>)
          => ENABLED (Dispatch \/ NoRoute))
  /\ []((Outstanding /\ proc = "running" /\ pending)
          => ENABLED (QueryError \/ QueryDone))
  /\ []((Outstanding /\ proc = "running")
          => ENABLED (BackgroundError \/ BackgroundDone))
  /\ [](\A x \in AllExchanges :
          (Done(x) /\ x.dbCalls = 1) =>
            x.res = <<Callback(x.req.op, x.req.p, x.dbErr,
                               IF x.dbErr = Null THEN RunSql(x.req.op, db, x.req.p)
                               ELSE Undefined)>>)

\* GET /api/races/11 is still waiting for its row while GET /api/circuits,
\* taken after it, has its list
C14_Witness ==
  /\ Len(background) = 1
  /\ background[1].pending
  /\ background[1].req.op = "raceById"
  /\ background[1].res = <<>>
  /\ Completed
  /\ req.op = "circuits"
  /\ res = <<Json(JsonArray(db.circuits))>>
  /\ db = F1Db


(* ------------------------- circuits of a season ------------------------ *)

\* route 3 has no isInt test: whatever the year, its statement is issued and
\* no answer is 400; a year that is no numeral finds no race and is named in
\* the 404
CircuitsSeasonTakesAnyYear ==
  req.op = "circuitsSeason" =>
    /\ dbCalls = 1
    /\ \A i \in 1..Len(res) : res[i].status # 400
    /\ (Completed /\ NonNumeric(req.p.year)) =>
         /\ Len(res) = 1
         /\ res[1].status = 404
         /\ IsErrorObject(res[1].body)
         /\ Contains(res[1].body.value.error, req.p.year)

\* route 11 answers the same year values with 400
RacesSeasonRefuses ==
  (req.op = "racesSeason" /\ NonNumeric(req.p.year)) =>
    /\ Len(res) = 1
    /\ res[1].status = 400

(* C21: list circuits for a season applies no integer validation to its
   year: for every year value the query is issued and the response is never
   400, and a non-numeric year yields 404 with a message containing that
   year, whereas list races in a season yields 400 for the same value *)
C21_CircuitsSeasonHasNoValidation ==
  CircuitsSeasonTakesAnyYear /\ RacesSeasonRefuses

====
